---- MODULE Spec2Model ----
(***************************************************************************)
(* FRED dashboard: the series fetcher (fetchFredSeries), the four          *)
(* fetch-and-normalize pipelines of app/services/fredApi.ts and the page   *)
(* controller (Home.loadData) of app/page.tsx.                             *)
(*                                                                         *)
(* Data representation.  A JavaScript string that the code inspects        *)
(* character by character (an observation's value) is a tuple of           *)
(* one-character strings.  An ISO date string "YYYY-MM-DD" is the record   *)
(* of its three fields.  A floating point number is a decimal              *)
(* [nan, neg, mant, scale] standing for (-1)^neg * mant * 10^(-scale).     *)
(* undefined is <<>> and a defined string s is <<s>> (API_KEY).            *)
(***************************************************************************)
EXTENDS Integers, Sequences, FiniteSets, TLC

VARIABLES
    API_KEY,          \* process.env.NEXT_PUBLIC_FRED_API_KEY, read once at load
    tzOffset,         \* the environment's local time zone, hours east of UTC
    pc,               \* per pipeline: where its async function stands
    response,         \* per pipeline: the HTTP response received, if any
    fetched,          \* per pipeline: what fetchFredSeries returned
    result,           \* per pipeline: what the pipeline's promise fulfilled with
    console,          \* per pipeline: what fetchFredSeries logged
    requests,         \* the network requests issued so far, in order
    loadData,         \* the controller's loadData: where it stands
    loading,          \* Home's loading flag
    cpiData,          \* Home's four result slots
    laborData,
    interest10YData,
    interest3MData,
    loadError,        \* TRUE once loadData's catch branch has run
    mounted,          \* Home is on screen (FALSE once React has torn it down)
    now,              \* the clock: Date.now(), in whole days since 1970-01-01 UTC
    args              \* the arguments of a direct fetchFredSeries call

vars == <<API_KEY, tzOffset, pc, response, fetched, result, console, requests,
          loadData, loading, cpiData, laborData, interest10YData,
          interest3MData, loadError, mounted, now, args>>

envVars == <<API_KEY, tzOffset, now, args>>

pipeVars == <<pc, response, fetched, result, console, requests>>
homeVars == <<loadData, loading, cpiData, laborData, interest10YData,
              interest3MData, loadError, mounted>>

-----------------------------------------------------------------------------
(* Bounds *)

\* Longest observations array an upstream body carries (pipeline specification).
MaxObs == 3

-----------------------------------------------------------------------------
(* The four pipelines and their series *)

Pipelines == {"fetchCPIData", "fetchUnemploymentData",
              "fetch10YearTreasuryData", "fetch3MonthTreasuryData"}

\* The order in which loadData calls them (the array given to Promise.all).
CallOrder == <<"fetchCPIData", "fetchUnemploymentData",
               "fetch10YearTreasuryData", "fetch3MonthTreasuryData">>

SeriesId(p) ==
    CASE p = "fetchCPIData"            -> "CPALTT01USM657N"
      [] p = "fetchUnemploymentData"   -> "UNRATE"
      [] p = "fetch10YearTreasuryData" -> "GS10"
      [] p = "fetch3MonthTreasuryData" -> "TB3MS"

-----------------------------------------------------------------------------
(* The access credential *)

undefined == <<>>
Str(s) == <<s>>

Keys == {undefined, Str(""), Str("your_fred_api_key_here"), Str("abc123")}

KeyNotConfiguredOnlyUnset(key) == key = undefined

\* !API_KEY || API_KEY === 'your_fred_api_key_here'
KeyNotConfigured(key) ==
    \/ key = undefined
    \/ key[1] = ""
    \/ key[1] = "your_fred_api_key_here"

-----------------------------------------------------------------------------
(* Upstream data *)

Sentinel == <<".">>

IsoDate(y, m, d) == [y |-> y, m |-> m, d |-> d]

ValueStrings == {Sentinel, <<"3", ".", "6">>, <<"4", ".", "4">>}

DateStrings == {IsoDate(2020, 1, 1), IsoDate(2020, 2, 1), IsoDate(2020, 3, 1)}

\* An entry of the observations array: null, an observation {date, value}
\* of strings, or an object whose date is itself an object that cannot be
\* converted to a primitive (own "toString" and "valueOf" that are no
\* functions, which JSON can express).
Observation(date, value) ==
    [kind |-> "observation", date |-> date, value |-> value]
NullEntry == [kind |-> "null"]
UnconvertibleEntry ==
    [kind |-> "unconvertible", value |-> <<"1">>]

Observations == {Observation(d, v) : d \in DateStrings, v \in ValueStrings}
Entries == Observations \cup {NullEntry, UnconvertibleEntry}

SeqsUpTo(S, n) == UNION {[1..k -> S] : k \in 0..n}

\* A response body: text that is no JSON, JSON with no observations array,
\* or JSON with one.
NotJson == [kind |-> "notJson"]
NoObservations == [kind |-> "noObservations"]
Json(observations) == [kind |-> "json", observations |-> observations]

Bodies == {NotJson, NoObservations} \cup {Json(s) : s \in SeqsUpTo(Entries, MaxObs)}

\* The sample bodies of the page-level specification: one of each kind.
LoadBodies ==
    {NotJson, NoObservations,
     Json(<<Observation(IsoDate(2020, 1, 1), Sentinel)>>),
     Json(<<Observation(IsoDate(2020, 1, 1), <<"3", ".", "6">>)>>),
     Json(<<UnconvertibleEntry>>)}

Statuses == {200, 500}
OkWithoutUpperBound(status) == status >= 200

\* response.ok: the status is in the range 200-299.
Ok(status) == status >= 200 /\ status <= 299

TimeZones == {-5, 0, 9}

-----------------------------------------------------------------------------
(* parseFloat: the longest prefix that is a decimal literal *)

Digits == {"0", "1", "2", "3", "4", "5", "6", "7", "8", "9"}

DigitVal(c) ==
    CASE c = "0" -> 0 [] c = "1" -> 1 [] c = "2" -> 2 [] c = "3" -> 3
      [] c = "4" -> 4 [] c = "5" -> 5 [] c = "6" -> 6 [] c = "7" -> 7
      [] c = "8" -> 8 [] c = "9" -> 9

NaN == [nan |-> TRUE, neg |-> FALSE, mant |-> 0, scale |-> 0]

RECURSIVE Decimal(_, _, _)
\* The number (-1)^neg * mant * 10^(-scale), trailing fraction zeros dropped.
Decimal(neg, mant, scale) ==
    IF scale > 0 /\ mant % 10 = 0
    THEN Decimal(neg, mant \div 10, scale - 1)
    ELSE [nan |-> FALSE, neg |-> neg /\ mant # 0, mant |-> mant, scale |-> scale]

RECURSIVE SkipWhite(_, _)
\* The first position at or after i that holds no white space.
SkipWhite(s, i) ==
    IF i <= Len(s) /\ s[i] = " " THEN SkipWhite(s, i + 1) ELSE i

RECURSIVE DigitRun(_, _)
\* How many digits stand in a row from position i.
DigitRun(s, i) ==
    IF i <= Len(s) /\ s[i] \in Digits THEN 1 + DigitRun(s, i + 1) ELSE 0

RECURSIVE DigitsValue(_, _, _)
\* The value of the n digits that end at position i + n - 1, read in base 10.
DigitsValue(s, i, n) ==
    IF n = 0 THEN 0
    ELSE 10 * DigitsValue(s, i, n - 1) + DigitVal(s[i + n - 1])

RECURSIVE Pow10(_)
Pow10(n) == IF n = 0 THEN 1 ELSE 10 * Pow10(n - 1)

parseFloat(s) ==
    LET start == SkipWhite(s, 1)
        signed == start <= Len(s) /\ s[start] \in {"-", "+"}
        neg == signed /\ s[start] = "-"
        i == IF signed THEN start + 1 ELSE start
        n == DigitRun(s, i)
        dot == i + n <= Len(s) /\ s[i + n] = "."
        f == IF dot THEN DigitRun(s, i + n + 1) ELSE 0
    IN  IF n = 0 /\ f = 0 THEN NaN
        ELSE Decimal(neg,
                     DigitsValue(s, i, n) * Pow10(f) + DigitsValue(s, i + n + 1, f),
                     f)

-----------------------------------------------------------------------------
(* new Date(obs.date).toLocaleDateString('en-US', {month:'short', year:'numeric'}) *)

MonthShort == <<"Jan", "Feb", "Mar", "Apr", "May", "Jun",
                "Jul", "Aug", "Sep", "Oct", "Nov", "Dec">>

IsLeap(y) == (y % 4 = 0 /\ y % 100 # 0) \/ y % 400 = 0

DaysInMonth(y, m) ==
    IF m = 2 THEN (IF IsLeap(y) THEN 29 ELSE 28)
    ELSE IF m \in {4, 6, 9, 11} THEN 30 ELSE 31

\* new Date("YYYY-MM-DD") is a valid time value only for a real calendar date.
IsValidDate(date) ==
    /\ date.m \in 1..12
    /\ date.d >= 1
    /\ date.d <= DaysInMonth(date.y, date.m)

PrevDay(date) ==
    IF date.d > 1 THEN IsoDate(date.y, date.m, date.d - 1)
    ELSE IF date.m > 1
         THEN IsoDate(date.y, date.m - 1, DaysInMonth(date.y, date.m - 1))
         ELSE IsoDate(date.y - 1, 12, 31)

\* The calendar date of the observation itself, whatever the time zone.
LocalDateIgnoringZone(date, tz) == date

\* A date-only ISO string is parsed as midnight UTC; toLocaleDateString reads
\* that instant in the local time zone: the same day east of UTC (offsets up
\* to +14 h), the day before west of it (offsets down to -12 h).
LocalDate(date, tz) ==
    IF (0 + tz) \div 24 < 0 THEN PrevDay(date) ELSE date

MonthYearLabel(date, tz) ==
    IF ~IsValidDate(date) THEN "Invalid Date"
    ELSE LET local == LocalDate(date, tz)
         IN  MonthShort[local.m] \o " " \o ToString(local.y)

-----------------------------------------------------------------------------
(* The fetcher's filter and the pipelines' normalizing map *)

KeepsEverything(obs) == TRUE

\* (obs) => obs.value !== '.'
NotSentinel(obs) == obs.value # Sentinel

\* data.observations.filter(...): the callback reads obs.value, which throws
\* a TypeError on a null entry.
FilterThrows(observations) ==
    \E i \in 1..Len(observations) : observations[i].kind = "null"

Unfiltered(observations) == observations

Filter(observations) == SelectSeq(observations, NotSentinel)

\* new Date(obs.date) throws a TypeError when obs.date is an object that
\* cannot be converted to a primitive.
MapThrows(data) ==
    \E i \in 1..Len(data) : data[i].kind = "unconvertible"

NormalizedPoint(obs, tz) ==
    [date |-> MonthYearLabel(obs.date, tz), value |-> parseFloat(obs.value)]

\* data.map((obs) => ({date: ..., value: parseFloat(obs.value)}))
Normalize(data, tz) ==
    [i \in 1..Len(data) |-> NormalizedPoint(data[i], tz)]

-----------------------------------------------------------------------------
(* The clock and the trailing window of the pipelines *)

\* Days since 1970-01-01 of a calendar date (the proleptic Gregorian
\* calendar of the Date object).
DaysFromCivil(date) ==
    LET y == IF date.m <= 2 THEN date.y - 1 ELSE date.y
        era == y \div 400
        yoe == y - era * 400
        mp == IF date.m > 2 THEN date.m - 3 ELSE date.m + 9
        doy == (153 * mp + 2) \div 5 + date.d - 1
        doe == yoe * 365 + yoe \div 4 - yoe \div 100 + doy
    IN  era * 146097 + doe - 719468

\* The calendar date (UTC) of a day number.
CivilFromDays(days) ==
    LET z == days + 719468
        era == z \div 146097
        doe == z - era * 146097
        yoe == (doe - doe \div 1460 + doe \div 36524 - doe \div 146096) \div 365
        doy == doe - (365 * yoe + yoe \div 4 - yoe \div 100)
        mp == (5 * doy + 2) \div 153
        d == doy - (153 * mp + 2) \div 5 + 1
        m == IF mp < 10 THEN mp + 3 ELSE mp - 9
    IN  IsoDate(yoe + era * 400 + (IF m <= 2 THEN 1 ELSE 0), m, d)

DigitChar(n) ==
    CASE n = 0 -> "0" [] n = 1 -> "1" [] n = 2 -> "2" [] n = 3 -> "3"
      [] n = 4 -> "4" [] n = 5 -> "5" [] n = 6 -> "6" [] n = 7 -> "7"
      [] n = 8 -> "8" [] n = 9 -> "9"

\* toISOString().split('T')[0]: "YYYY-MM-DD" (years 0000 to 9999).
IsoString(date) ==
    <<DigitChar(date.y \div 1000), DigitChar((date.y \div 100) % 10),
      DigitChar((date.y \div 10) % 10), DigitChar(date.y % 10), "-",
      DigitChar(date.m \div 10), DigitChar(date.m % 10), "-",
      DigitChar(date.d \div 10), DigitChar(date.d % 10)>>

\* const endDate = new Date().toISOString().split('T')[0]
EndDate(clock) == IsoString(CivilFromDays(clock))

\* const startDate = new Date(Date.now() - 5 * 365 * 24 * 60 * 60 * 1000)
\*     .toISOString().split('T')[0]
\* The subtrahend is 5 * 365 whole days of 24 * 60 * 60 * 1000 ms.
StartDate(clock) == IsoString(CivilFromDays(clock - 5 * 365))

\* The clock readings of the call-level specification, and the one reading
\* at which the page-level and pipeline-level specifications run.
Clock == {DaysFromCivil(IsoDate(2026, 11, 5)), DaysFromCivil(IsoDate(2024, 3, 1)),
          DaysFromCivil(IsoDate(2025, 1, 1))}

MountClock == {DaysFromCivil(IsoDate(2026, 11, 5))}

-----------------------------------------------------------------------------
(* URLSearchParams *)

Unreserved == Digits \cup {"-", "_", ".", "*"}

\* application/x-www-form-urlencoded serialisation of one character.
EncodeChar(c) ==
    CASE c \in Unreserved -> <<c>>
      [] c = " " -> <<"+">>
      [] c = "/" -> <<"%", "2", "F">>
      [] c = ":" -> <<"%", "3", "A">>

RECURSIVE UrlEncode(_)
UrlEncode(chars) ==
    IF chars = <<>> THEN <<>>
    ELSE EncodeChar(Head(chars)) \o UrlEncode(Tail(chars))

\* An optional string argument: undefined, or <<chars>>.
Truthy(arg) == arg # undefined /\ arg[1] # <<>>

ParamAlways(arg) == IF arg = undefined THEN <<>> ELSE <<UrlEncode(arg[1])>>

\* if (startDate) params.append('observation_start', startDate): the
\* parameter as the query string carries it, << >> when it is not appended.
Param(arg) == IF Truthy(arg) THEN <<UrlEncode(arg[1])>> ELSE <<>>

\* What a direct caller of fetchFredSeries may pass as a date.
DateArgs == {undefined, Str(<<>>), Str(IsoString(IsoDate(2020, 1, 1))),
             Str(IsoString(IsoDate(2020, 3, 1)))}

Callers == Pipelines \cup {"fetchFredSeries"}

Args == [seriesId : {"UNRATE", "GS10"}, startDate : DateArgs, endDate : DateArgs]

NoArgs == [seriesId |-> "", startDate |-> undefined, endDate |-> undefined]

-----------------------------------------------------------------------------
(* State *)

NoResponse == [received |-> FALSE]
Unread == [kind |-> "unread"]
Response(status, body) == [received |-> TRUE, status |-> status, body |-> body]

Silent == [message |-> "", error |-> ""]
Logged(message, error) == [message |-> message, error |-> error]

\* console.warn('FRED API key not configured. Using mock data.')
KeyWarning == Logged("FRED API key not configured. Using mock data.", "")
\* console.error('Error fetching FRED data:', error)
FetchError(error) == Logged("Error fetching FRED data:", error)

\* Nothing called yet, Home rendered once with its initial state.
InitState(callers) ==
    /\ pc = [p \in callers |-> "idle"]
    /\ response = [p \in callers |-> NoResponse]
    /\ fetched = [p \in callers |-> <<>>]
    /\ result = [p \in callers |-> <<>>]
    /\ console = [p \in callers |-> Silent]
    /\ requests = <<>>
    /\ mounted = TRUE
    /\ loadData = "notStarted"
    /\ loading = TRUE
    /\ cpiData = <<>>
    /\ laborData = <<>>
    /\ interest10YData = <<>>
    /\ interest3MData = <<>>
    /\ loadError = FALSE

Init ==
    /\ API_KEY \in Keys
    /\ tzOffset \in TimeZones
    /\ now \in MountClock
    /\ args = NoArgs
    /\ InitState(Pipelines)

\* fetchFredSeries or a pipeline called on its own, at any clock reading.
CallInit ==
    /\ API_KEY \in Keys
    /\ tzOffset \in TimeZones
    /\ now \in Clock
    /\ args \in Args
    /\ InitState(Callers)

-----------------------------------------------------------------------------
(* fetchFredSeries and the pipelines *)

\* GET {FRED_API_BASE}/series/observations?series_id=..&api_key=..&file_type=json
\*     [&observation_start=..][&observation_end=..]
Request(seriesId, key, startDate, endDate) ==
    [base |-> "https://api.stlouisfed.org/fred",
     series_id |-> seriesId, api_key |-> key[1], file_type |-> "json",
     observation_start |-> Param(startDate),
     observation_end |-> Param(endDate)]

\* What one call fetchFredSeries(seriesId, startDate, endDate) sends: nothing
\* without a configured key, otherwise its one fetch(...).
Sent(key, seriesId, startDate, endDate) ==
    IF KeyNotConfigured(key) THEN <<>>
    ELSE <<Request(seriesId, key, startDate, endDate)>>

IssuedTwice(key, p) ==
    Sent(key, SeriesId(p), Str(StartDate(now)), Str(EndDate(now)))
        \o Sent(key, SeriesId(p), Str(StartDate(now)), Str(EndDate(now)))

\* What one call of pipeline p sends: fetchFredSeries(series, startDate,
\* endDate) with the window computed from the clock at call time.
Issued(key, p) ==
    Sent(key, SeriesId(p), Str(StartDate(now)), Str(EndDate(now)))

RECURSIVE IssuedBy(_, _)
\* What calling the pipelines of `order`, one after the other, sends.
IssuedBy(key, order) ==
    IF order = <<>> THEN <<>>
    ELSE Issued(key, Head(order)) \o IssuedBy(key, Tail(order))

Range(f) == {f[i] : i \in DOMAIN f}

\* The synchronous part of calling the pipelines of `order`: each runs up to
\* its first await, inside fetchFredSeries: either the key check returned []
\* (the pipeline then waits for that resolved promise) or fetch() was called.
Calls(order) ==
    /\ pc' = [p \in DOMAIN pc |->
                IF p \in Range(order)
                THEN (IF KeyNotConfigured(API_KEY) THEN "returned" ELSE "fetching")
                ELSE pc[p]]
    /\ console' = [p \in DOMAIN console |->
                IF p \in Range(order) /\ KeyNotConfigured(API_KEY)
                THEN KeyWarning ELSE console[p]]
    /\ fetched' = [p \in DOMAIN fetched |->
                IF p \in Range(order) THEN <<>> ELSE fetched[p]]
    /\ requests' = requests \o IssuedBy(API_KEY, order)
    /\ UNCHANGED <<response, result>>

\* fetchFredSeries's catch: log, return [].
Caught(p, error) ==
    /\ console' = [console EXCEPT ![p] = FetchError(error)]
    /\ fetched' = [fetched EXCEPT ![p] = <<>>]
    /\ pc' = [pc EXCEPT ![p] = "returned"]

\* fetch() rejects (no connection, DNS, CORS): caught.
FetchRejects(p) ==
    /\ pc[p] = "fetching"
    /\ Caught(p, "TypeError: Failed to fetch")
    /\ UNCHANGED <<response, result, requests>>
    /\ UNCHANGED envVars
    /\ UNCHANGED homeVars

\* fetch() resolves with a response: a non-ok status throws, which is caught;
\* an ok one goes on to await response.json().
FetchResolves(p) ==
    /\ pc[p] = "fetching"
    /\ \E status \in Statuses :
         /\ response' = [response EXCEPT ![p] = Response(status, Unread)]
         /\ IF Ok(status)
            THEN /\ pc' = [pc EXCEPT ![p] = "reading"]
                 /\ UNCHANGED <<console, fetched>>
            ELSE Caught(p, "Error: FRED API error: " \o ToString(status))
    /\ UNCHANGED <<result, requests>>
    /\ UNCHANGED envVars
    /\ UNCHANGED homeVars

\* The upstream never answers the request: no timeout is configured, the
\* await of fetch() never completes.
NeverResponds(p) ==
    /\ pc[p] = "fetching"
    /\ pc' = [pc EXCEPT ![p] = "stalled"]
    /\ UNCHANGED <<response, fetched, result, console, requests>>
    /\ UNCHANGED envVars
    /\ UNCHANGED homeVars

\* response.json() settles on a body drawn from `bodies`; then
\* data.observations.filter(...) runs, all inside the try.
JsonSettles(p, bodies) ==
    /\ pc[p] = "reading"
    /\ \E body \in bodies :
         /\ response' = [response EXCEPT ![p] = Response(response[p].status, body)]
         /\ CASE body.kind = "notJson" ->
                   Caught(p, "SyntaxError")
              [] body.kind = "noObservations" ->
                   Caught(p, "TypeError")
              [] body.kind = "json" /\ FilterThrows(body.observations) ->
                   Caught(p, "TypeError")
              [] OTHER ->
                   /\ fetched' = [fetched EXCEPT ![p] = Filter(body.observations)]
                   /\ pc' = [pc EXCEPT ![p] = "returned"]
                   /\ UNCHANGED console
    /\ UNCHANGED <<result, requests>>
    /\ UNCHANGED envVars
    /\ UNCHANGED homeVars

\* The pipeline resumes after `await fetchFredSeries(...)` and maps the
\* observations; the map is outside any try, so what it throws rejects the
\* pipeline's promise.
Resumes(p) ==
    /\ pc[p] = "returned"
    /\ IF MapThrows(fetched[p])
       THEN /\ pc' = [pc EXCEPT ![p] = "rejected"]
            /\ UNCHANGED result
       ELSE /\ pc' = [pc EXCEPT ![p] = "fulfilled"]
            /\ result' = [result EXCEPT ![p] = Normalize(fetched[p], tzOffset)]
    /\ UNCHANGED <<response, fetched, console, requests>>
    /\ UNCHANGED envVars
    /\ UNCHANGED homeVars

\* A pipeline function called on its own (no page): PipeSpec's entry point.
CallPipeline(p) ==
    /\ loadData = "notStarted"
    /\ \A q \in DOMAIN pc : pc[q] = "idle"
    /\ Calls(<<p>>)
    /\ UNCHANGED envVars
    /\ UNCHANGED homeVars

\* fetchFredSeries(args.seriesId, args.startDate, args.endDate) called on
\* its own, up to its first await.
CallFetchFredSeries ==
    /\ "fetchFredSeries" \in DOMAIN pc
    /\ loadData = "notStarted"
    /\ \A q \in DOMAIN pc : pc[q] = "idle"
    /\ pc' = [pc EXCEPT !["fetchFredSeries"] =
                 IF KeyNotConfigured(API_KEY) THEN "returned" ELSE "fetching"]
    /\ console' = [console EXCEPT !["fetchFredSeries"] =
                 IF KeyNotConfigured(API_KEY) THEN KeyWarning ELSE @]
    /\ requests' = requests \o Sent(API_KEY, args.seriesId, args.startDate, args.endDate)
    /\ UNCHANGED <<response, fetched, result>>
    /\ UNCHANGED envVars
    /\ UNCHANGED homeVars

-----------------------------------------------------------------------------
(* Home: the page controller *)

PromiseAnyFulfilled(state) == \E p \in Pipelines : state[p] = "fulfilled"

\* Promise.all fulfils once every input promise has fulfilled ...
PromiseAllFulfilled(state) == \A p \in Pipelines : state[p] = "fulfilled"

\* ... and rejects as soon as one input promise rejects, the others pending or not.
PromiseAllRejected(state) == \E p \in Pipelines : state[p] = "rejected"

SlotsSwapped(values) == <<values[2], values[1], values[3], values[4]>>

\* const [cpi, unemployment, treasury10Y, treasury3M] = await Promise.all([...]),
\* then setCpiData(cpi); setLaborData(unemployment); setInterest10YData(treasury10Y);
\* setInterest3MData(treasury3M): the four slots, in that order.
Slots(values) == <<values[1], values[2], values[3], values[4]>>

\* useEffect(() => { loadData() }, []): runs once after the first render.
\* loadData sets the flag and calls the four pipelines, each up to its first
\* await, then awaits Promise.all.
Mount ==
    /\ loadData = "notStarted"
    /\ \A q \in Pipelines : pc[q] = "idle"
    /\ loading' = TRUE
    /\ loadData' = "awaiting"
    /\ Calls(CallOrder)
    /\ UNCHANGED envVars
    /\ UNCHANGED <<cpiData, laborData, interest10YData, interest3MData, loadError>>
    /\ UNCHANGED mounted

\* The same continuation behind a teardown guard: once Home is torn down the
\* results are dropped and no setter is called.
LoadDataResumesGuarded ==
    /\ loadData = "awaiting"
    /\ PromiseAllFulfilled(pc)
    /\ IF mounted
       THEN /\ cpiData' = result[CallOrder[1]]
            /\ laborData' = result[CallOrder[2]]
            /\ interest10YData' = result[CallOrder[3]]
            /\ interest3MData' = result[CallOrder[4]]
            /\ loading' = FALSE
       ELSE UNCHANGED <<cpiData, laborData, interest10YData, interest3MData, loading>>
    /\ loadData' = "done"
    /\ UNCHANGED <<loadError, mounted>>
    /\ UNCHANGED envVars
    /\ UNCHANGED pipeVars

\* The same continuation with the setLoading(false) of the finally left out.
LoadDataResumesKeepsLoading ==
    /\ loadData = "awaiting"
    /\ PromiseAllFulfilled(pc)
    /\ cpiData' = result[CallOrder[1]]
    /\ laborData' = result[CallOrder[2]]
    /\ interest10YData' = result[CallOrder[3]]
    /\ interest3MData' = result[CallOrder[4]]
    /\ loadData' = "done"
    /\ UNCHANGED <<loading, loadError, mounted>>
    /\ UNCHANGED envVars
    /\ UNCHANGED pipeVars

\* Promise.all fulfilled: the four setters, then finally { setLoading(false) }.
LoadDataResumes ==
    /\ loadData = "awaiting"
    /\ PromiseAllFulfilled(pc)
    /\ LET slots == Slots([i \in 1..4 |-> result[CallOrder[i]]])
       IN  /\ cpiData' = slots[1]
           /\ laborData' = slots[2]
           /\ interest10YData' = slots[3]
           /\ interest3MData' = slots[4]
    /\ loading' = FALSE
    /\ loadData' = "done"
    /\ UNCHANGED <<loadError, mounted>>
    /\ UNCHANGED envVars
    /\ UNCHANGED pipeVars

\* Promise.all rejected: catch { console.error(...) } finally { setLoading(false) }.
LoadDataCatches ==
    /\ loadData = "awaiting"
    /\ PromiseAllRejected(pc)
    /\ loadError' = TRUE
    /\ loading' = FALSE
    /\ loadData' = "done"
    /\ UNCHANGED <<cpiData, laborData, interest10YData, interest3MData, mounted>>
    /\ UNCHANGED envVars
    /\ UNCHANGED pipeVars

\* React tears Home down while loadData awaits the four pipelines.  The
\* effect returns no cleanup function, so no code of the page runs.
Unmount ==
    /\ mounted
    /\ loadData = "awaiting"
    /\ mounted' = FALSE
    /\ UNCHANGED <<loadData, loading, cpiData, laborData, interest10YData,
                   interest3MData, loadError>>
    /\ UNCHANGED envVars
    /\ UNCHANGED pipeVars

-----------------------------------------------------------------------------
(* Specifications *)

\* The page: one mount, the four pipelines, the join.
Next ==
    \/ Mount
    \/ \E p \in Pipelines : FetchRejects(p)
    \/ \E p \in Pipelines : FetchResolves(p)
    \/ \E p \in Pipelines : NeverResponds(p)
    \/ \E p \in Pipelines : JsonSettles(p, LoadBodies)
    \/ \E p \in Pipelines : Resumes(p)
    \/ LoadDataResumes
    \/ LoadDataCatches

Spec == Init /\ [][Next]_vars

\* The event loop runs every continuation that is ready, and every request
\* gets one of its outcomes (a response, a failure, or never an answer).
FairSpec == Spec /\ WF_vars(Next)

\* One pipeline called on its own, the upstream body drawn from Bodies.
PipeNext ==
    \/ \E p \in Pipelines : CallPipeline(p)
    \/ \E p \in Pipelines : FetchRejects(p)
    \/ \E p \in Pipelines : FetchResolves(p)
    \/ \E p \in Pipelines : NeverResponds(p)
    \/ \E p \in Pipelines : JsonSettles(p, Bodies)
    \/ \E p \in Pipelines : Resumes(p)

PipeSpec == Init /\ [][PipeNext]_vars

\* The page with a teardown during the load.
TeardownNext ==
    \/ Next
    \/ Unmount

TeardownSpec == Init /\ [][TeardownNext]_vars

\* Any step that waits on the network, or that follows a rejection.
NetworkStep ==
    \/ \E p \in Pipelines : FetchRejects(p)
    \/ \E p \in Pipelines : FetchResolves(p)
    \/ \E p \in Pipelines : NeverResponds(p)
    \/ \E p \in Pipelines : JsonSettles(p, LoadBodies)
    \/ LoadDataCatches

\* The page without a usable credential: the steps of Next that can then be
\* taken (no step of NetworkStep is ever enabled, which C12 checks).  The
\* event loop runs the effect and every ready continuation.
OfflineInit == Init /\ API_KEY \in Keys \ {Str("abc123")}

OfflineNext ==
    \/ Mount
    \/ \E p \in Pipelines : Resumes(p)
    \/ LoadDataResumes

OfflineFairSpec == OfflineInit /\ [][OfflineNext]_vars /\ WF_vars(OfflineNext)

\* fetchFredSeries, or one pipeline, called on its own at any clock reading.
CallNext ==
    \/ CallFetchFredSeries
    \/ \E p \in Pipelines : CallPipeline(p)
    \/ \E p \in Callers : FetchRejects(p)
    \/ \E p \in Callers : FetchResolves(p)
    \/ \E p \in Callers : NeverResponds(p)
    \/ \E p \in Callers : JsonSettles(p, LoadBodies)
    \/ \E p \in Pipelines : Resumes(p)

CallSpec == CallInit /\ [][CallNext]_vars

-----------------------------------------------------------------------------
(* Properties *)

Configured == API_KEY = Str("abc123")

\* The upstream of p answered ok with a JSON body whose observations array
\* holds observations only.
AnsweredObservations(p) ==
    /\ response[p].received
    /\ response[p].status = 200
    /\ response[p].body.kind = "json"
    /\ \A i \in 1..Len(response[p].body.observations) :
           response[p].body.observations[i].kind = "observation"

Upstream(p) == response[p].body.observations

IsSentinel(obs) == obs.value = <<".">>

\* Among the first i observations, how many are no sentinel.
Rank(obs, i) == Cardinality({j \in 1..i : ~IsSentinel(obs[j])})

\* C1: for an upstream answer of N observations of which M are sentinels,
\* the pipeline does not reject, and once it has fulfilled its output has
\* exactly N - M points: the k-th non-sentinel observation, in upstream
\* order, gives the k-th point, and no point comes from a sentinel.
C1_FilteredInOrder ==
    \A p \in Pipelines :
        AnsweredObservations(p) =>
            /\ pc[p] \in {"returned", "fulfilled"}
            /\ pc[p] = "fulfilled" =>
                 LET obs == Upstream(p)
                     N == Len(obs)
                     M == Cardinality({i \in 1..N : IsSentinel(obs[i])})
                 IN  /\ Len(result[p]) = N - M
                     /\ \A i \in 1..N :
                          ~IsSentinel(obs[i]) =>
                              result[p][Rank(obs, i)] = NormalizedPoint(obs[i], tzOffset)

C1_Witness ==
    \E p \in Pipelines :
        /\ AnsweredObservations(p)
        /\ pc[p] = "fulfilled"
        /\ Len(Upstream(p)) = 3
        /\ IsSentinel(Upstream(p)[2])
        /\ ~IsSentinel(Upstream(p)[1])
        /\ ~IsSentinel(Upstream(p)[3])
        /\ Upstream(p)[1] # Upstream(p)[3]
        /\ Len(result[p]) = 2

KeyMissing == API_KEY \in {undefined, Str(""), Str("your_fred_api_key_here")}

\* C2: with the credential unset, empty or the placeholder, every call of
\* fetchFredSeries has returned the empty sequence without reaching fetch():
\* no request is ever issued and no pipeline waits on the network.
C2_NoKeyNoRequest ==
    KeyMissing =>
        /\ requests = <<>>
        /\ \A p \in Pipelines :
             /\ pc[p] \in {"idle", "returned", "fulfilled"}
             /\ fetched[p] = <<>>
             /\ ~response[p].received

C2_Witness ==
    /\ API_KEY = Str("your_fred_api_key_here")
    /\ \A p \in Pipelines : pc[p] = "fulfilled" /\ console[p] = KeyWarning
    /\ requests = <<>>

NonSuccess(p) ==
    /\ response[p].received
    /\ ~(response[p].status \in 200..299)

\* C3: when the upstream answered with a non-success status, fetchFredSeries
\* returned the empty sequence and the pipeline fulfils with the empty
\* sequence; it is never rejected and never reads the body.
C3_ErrorStatusGivesEmpty ==
    \A p \in Pipelines :
        NonSuccess(p) =>
            /\ pc[p] \in {"returned", "fulfilled"}
            /\ fetched[p] = <<>>
            /\ result[p] = <<>>
            /\ response[p].body = Unread

C3_Witness ==
    \E p \in Pipelines :
        /\ response[p].received
        /\ response[p].status = 500
        /\ pc[p] = "fulfilled"
        /\ result[p] = <<>>

\* C4: the loading flag is clear only when all four pipelines have resolved.
C4_ClearsAfterAllFour ==
    loading = FALSE => \A p \in Pipelines : pc[p] = "fulfilled"

\* C5: no pipeline ever rejects, and loadData's catch branch is never taken.
C5_NeverRejects ==
    /\ \A p \in Pipelines : pc[p] # "rejected"
    /\ loadError = FALSE

ExampleUpstream ==
    <<Observation(IsoDate(2020, 1, 1), <<"3", ".", "6">>),
      Observation(IsoDate(2020, 2, 1), <<".">>),
      Observation(IsoDate(2020, 3, 1), <<"4", ".", "4">>)>>

ExampleOutput ==
    <<[date |-> "Jan 2020", value |-> [nan |-> FALSE, neg |-> FALSE, mant |-> 36, scale |-> 1]],
      [date |-> "Mar 2020", value |-> [nan |-> FALSE, neg |-> FALSE, mant |-> 44, scale |-> 1]]>>

\* C6: each point is labelled with the month and year of the observation's
\* own calendar date in every time zone; for the example upstream the
\* unemployment pipeline's output is exactly Jan 2020 / 3.6, Mar 2020 / 4.4.
C6_LabelIsOwnMonth ==
    \A p \in Pipelines :
        (AnsweredObservations(p) /\ pc[p] = "fulfilled") =>
            /\ \A i \in 1..Len(Upstream(p)) :
                 ~IsSentinel(Upstream(p)[i]) =>
                     result[p][Rank(Upstream(p), i)].date =
                         MonthShort[Upstream(p)[i].date.m] \o " "
                             \o ToString(Upstream(p)[i].date.y)
            /\ Upstream(p) = ExampleUpstream => result[p] = ExampleOutput

OneStalledOthersResolved ==
    \E p \in Pipelines :
        /\ pc[p] = "stalled"
        /\ \A q \in Pipelines \ {p} : pc[q] = "fulfilled"

\* C7 as stated: when one upstream never responds and the other three
\* pipelines have resolved, the loading flag eventually clears.
C7_StillClears == OneStalledOthersResolved ~> (loading = FALSE)

\* C7 amended: when one upstream never responds and the other three
\* pipelines have resolved, the loading flag is set, and it stays set: the
\* load cycle is blocked, not delayed.
C7_StalledBlocks ==
    [][OneStalledOthersResolved =>
          /\ loading = TRUE
          /\ loading' = TRUE
          /\ OneStalledOthersResolved']_vars

C7_Witness ==
    /\ OneStalledOthersResolved
    /\ loadData = "awaiting"
    /\ loading = TRUE

RequestsFor(p) == {i \in 1..Len(requests) : requests[i].series_id = SeriesId(p)}

\* C8: before the mount nothing is sent; from the mount on, whatever fails
\* afterwards, the requests sent are exactly one per pipeline when the
\* credential is configured (four in all) and none otherwise.
C8_FourRequestsOnce ==
    /\ loadData = "notStarted" => requests = <<>>
    /\ loadData # "notStarted" =>
         /\ Len(requests) = (IF Configured THEN 4 ELSE 0)
         /\ \A p \in Pipelines :
              Cardinality(RequestsFor(p)) = (IF Configured THEN 1 ELSE 0)

C8_Witness ==
    /\ loadData = "done"
    /\ Len(requests) = 4
    /\ \E p \in Pipelines : console[p] = FetchError("TypeError: Failed to fetch")
    /\ \E p \in Pipelines : console[p] = FetchError("Error: FRED API error: 500")

\* C9: whenever loading is false, each slot holds the result of its own
\* pipeline.
C9_SlotsHoldResults ==
    loading = FALSE =>
        /\ cpiData = result["fetchCPIData"]
        /\ laborData = result["fetchUnemploymentData"]
        /\ interest10YData = result["fetch10YearTreasuryData"]
        /\ interest3MData = result["fetch3MonthTreasuryData"]

NetworkFailed(p) ==
    \/ NonSuccess(p)
    \/ console[p] = FetchError("TypeError: Failed to fetch")

ZeroNonSentinel(p) ==
    /\ AnsweredObservations(p)
    /\ \A i \in 1..Len(Upstream(p)) : IsSentinel(Upstream(p)[i])

\* C10: credential missing, network call failed, or a successful answer
\* with no non-sentinel observation: in all three cases fetchFredSeries
\* returns, and the pipeline fulfils with, the same empty sequence.
C10_SameEmptyOutput ==
    \A p \in Pipelines :
        (pc[p] # "idle" /\ (KeyMissing \/ NetworkFailed(p) \/ ZeroNonSentinel(p))) =>
            /\ pc[p] \in {"returned", "fulfilled"}
            /\ fetched[p] = <<>>
            /\ result[p] = <<>>

C10_Witness ==
    \E p \in Pipelines :
        /\ ZeroNonSentinel(p)
        /\ Len(Upstream(p)) = 2
        /\ pc[p] = "fulfilled"
        /\ result[p] = <<>>

TornDown == ~mounted

SlotsWritten ==
    /\ cpiData = result["fetchCPIData"]
    /\ laborData = result["fetchUnemploymentData"]
    /\ interest10YData = result["fetch10YearTreasuryData"]
    /\ interest3MData = result["fetch3MonthTreasuryData"]

\* C11: nothing guards the continuation of loadData against a teardown.
\* With Home torn down during the load, the continuation is still ready to
\* run as soon as the four pipelines have settled, and once it has run the
\* loading flag is cleared and (when no pipeline rejected) the four slots
\* hold the four results: the setters were called after the teardown.
C11_WritesAfterTeardown ==
    /\ (TornDown /\ loadData = "awaiting" /\ \A p \in Pipelines : pc[p] = "fulfilled")
           => ENABLED LoadDataResumes
    /\ (TornDown /\ loadData = "done") =>
           /\ loading = FALSE
           /\ ~loadError => SlotsWritten

C11_Witness ==
    /\ TornDown
    /\ loadData = "done"
    /\ loading = FALSE
    /\ ~loadError
    /\ cpiData # <<>>
    /\ SlotsWritten

OfflineDone ==
    /\ loading = FALSE
    /\ cpiData = <<>>
    /\ laborData = <<>>
    /\ interest10YData = <<>>
    /\ interest3MData = <<>>
    /\ requests = <<>>

SentBy(p) ==
    IF pc[p] = "idle" THEN {}
    ELSE {requests[i] : i \in 1..Len(requests)}

Today == CivilFromDays(now)

\* C13: every request of a pipeline asks for the trailing five years:
\* observation_end is the current date and observation_start is the same
\* month and day five years earlier.
C13_TrailingFiveYears ==
    \A p \in Pipelines :
        \A r \in SentBy(p) :
            /\ r.observation_end = <<IsoString(Today)>>
            /\ r.observation_start =
                   <<IsoString(IsoDate(Today.y - 5, Today.m, Today.d))>>

\* A date was supplied: the argument is a string, and not the empty one.
Supplied(arg) == arg # <<>> /\ arg # << <<>> >>

\* C14: every request carries series_id, api_key and file_type=json; the
\* request of fetchFredSeries(seriesId, startDate, endDate) carries the
\* series it was given, carries observation_start exactly when a start date
\* was supplied and observation_end exactly when an end date was supplied,
\* each with the supplied date unchanged and each whatever the other is; a
\* call with a configured key sends exactly one such request.
C14_RequestParameters ==
    /\ \A i \in 1..Len(requests) :
         /\ requests[i].base = "https://api.stlouisfed.org/fred"
         /\ requests[i].api_key = API_KEY[1]
         /\ requests[i].file_type = "json"
         /\ requests[i].series_id \in {SeriesId(p) : p \in Pipelines}
    /\ pc["fetchFredSeries"] # "idle" =>
         /\ Len(requests) = (IF Configured THEN 1 ELSE 0)
         /\ \A i \in 1..Len(requests) :
              /\ requests[i].series_id = args.seriesId
              /\ requests[i].observation_start =
                     (IF Supplied(args.startDate) THEN args.startDate ELSE <<>>)
              /\ requests[i].observation_end =
                     (IF Supplied(args.endDate) THEN args.endDate ELSE <<>>)
    /\ \A p \in Pipelines :
         pc[p] # "idle" =>
             /\ Len(requests) = (IF Configured THEN 1 ELSE 0)
             /\ \A i \in 1..Len(requests) :
                  /\ requests[i].series_id = SeriesId(p)
                  /\ Len(requests[i].observation_start) = 1
                  /\ Len(requests[i].observation_end) = 1

C14_Witness ==
    /\ pc["fetchFredSeries"] = "fetching"
    /\ args.startDate = <<<<"2", "0", "2", "0", "-", "0", "1", "-", "0", "1">>>>
    /\ args.endDate = << <<>> >>
    /\ Len(requests) = 1
    /\ requests[1].observation_start = args.startDate
    /\ requests[1].observation_end = <<>>

====
